---- MODULE Spec2Model ----
(***************************************************************************)
(* Model of validate_reagent_resources.py: the validation of the reagent   *)
(* registry (reagent_resources.csv) against the creators list, the vendor  *)
(* list and the supporting-material directory tree.                        *)
(*                                                                         *)
(* Strings are sequences of characters (one-character strings, and a few   *)
(* indivisible atoms such as ".DS_Store"), so that split, strip, the       *)
(* character replacement and the path base name are computed as the code   *)
(* computes them.  A data frame is a sequence of rows, row i of the model  *)
(* being the row with pandas index i - 1; a row is a function from column  *)
(* names to cells.                                                         *)
(***************************************************************************)
EXTENDS Integers, Sequences, FiniteSets, TLC

\* ------------------------------------------------------------------------
\* Bounds of the model and constants of the program
\* ------------------------------------------------------------------------

\* An input set is at most MaxEdits point edits away from the base input set.
MaxEdits == 2

MAX_ORCID_ENTRIES == 5

shift_index == 2

\* ------------------------------------------------------------------------
\* Strings
\* ------------------------------------------------------------------------

Range(s) == {s[i] : i \in DOMAIN s}

\* The characters str.strip() removes (of those the model's strings hold).
Whitespace == {" ", "\t"}

RECURSIVE LStrip(_)
LStrip(s) ==
    IF s = <<>> THEN <<>>
    ELSE IF Head(s) \in Whitespace THEN LStrip(Tail(s)) ELSE s

RECURSIVE RStrip(_)
RStrip(s) ==
    IF s = <<>> THEN <<>>
    ELSE IF s[Len(s)] \in Whitespace THEN RStrip(SubSeq(s, 1, Len(s) - 1)) ELSE s

\* str.strip()
Strip(s) == RStrip(LStrip(s))

\* str.split(sep): the pieces between the separators, empty pieces kept.
RECURSIVE SplitFrom(_, _, _)
SplitFrom(s, sep, cur) ==
    IF s = <<>> THEN <<cur>>
    ELSE IF Head(s) = sep THEN <<cur>> \o SplitFrom(Tail(s), sep, <<>>)
    ELSE SplitFrom(Tail(s), sep, Append(cur, Head(s)))

Split(s, sep) == SplitFrom(s, sep, <<>>)

NA == <<"N", "A">>

RECURSIVE FilterSeq(_, _)
FilterSeq(s, keep) ==
    IF s = <<>> THEN <<>>
    ELSE IF Head(s) \in keep THEN <<Head(s)>> \o FilterSeq(Tail(s), keep)
    ELSE FilterSeq(Tail(s), keep)

StripAll(pieces) == [i \in DOMAIN pieces |-> Strip(pieces[i])]

\* A mutant of ParseOrcids: the NA token is kept.
ParseOrcidsKeepNA(x) ==
    LET toks == StripAll(Split(x, ";"))
    IN  FilterSeq(toks, Range(toks) \ {<<>>})

\* [v.strip() for v in x.split(";") if v.strip() not in ["", "NA"]]
ParseOrcids(x) ==
    LET toks == StripAll(Split(x, ";"))
    IN  FilterSeq(toks, Range(toks) \ {<<>>, NA})

\* [] if x.strip() == "NA" else [v.strip() for v in x.split(";")]
ParseList(x) ==
    IF Strip(x) = NA THEN <<>> ELSE StripAll(Split(x, ";"))

\* pathlib.Path(p).name: what follows the last "/".
PathName(p) ==
    LET parts == Split(p, "/") IN parts[Len(parts)]

invalid_chars ==
    <<" ", "\t", "/", "\\", "{", "}", "[", "]", "(", ")", "<", ">", ":", "&">>

\* str.replace(c, replacement_char)
Replace(s, c, r) == [i \in DOMAIN s |-> IF s[i] = c THEN r ELSE s[i]]

RECURSIVE replace_char_list(_, _, _)
replace_char_list(input_str, change_chars_list, replacement_char) ==
    IF change_chars_list = <<>> THEN input_str
    ELSE replace_char_list(
            Replace(input_str, Head(change_chars_list), replacement_char),
            Tail(change_chars_list), replacement_char)

\* ------------------------------------------------------------------------
\* The registry: columns and cells
\* ------------------------------------------------------------------------

TargetCol == "Target Name / Protein Biomarker"

\* The columns of the registry in header order: the columns the code names,
\* Vendor standing for every column the code does not treat specially.
Columns ==
    <<TargetCol, "Conjugate", "Vendor", "Contributor", "Agree", "Disagree",
      "Image Files", "Captions", "MD5">>

ColumnSet == Range(Columns)

\* Joins strings with ";" (the writer of a multi-value cell).
RECURSIVE Semi(_)
Semi(parts) ==
    IF parts = <<>> THEN <<>>
    ELSE IF Len(parts) = 1 THEN Head(parts)
    ELSE Head(parts) \o <<";">> \o Semi(Tail(parts))

S1(c) == <<c>>

\* The creators file: the ORCIDs of the contributors.  "z" is an ORCID that
\* is well formed and not a creator's.
CreatorOrcids == {S1(c) : c \in {"a", "b", "c", "d", "e", "f"}}

\* The vendors file: the Vendor column.
VendorNames == {S1("v"), S1("w")}

Row(t, cj, v, co, ag, dis, im, cap, md) ==
    [c \in ColumnSet |->
        CASE c = TargetCol -> t
          [] c = "Conjugate" -> cj
          [] c = "Vendor" -> v
          [] c = "Contributor" -> co
          [] c = "Agree" -> ag
          [] c = "Disagree" -> dis
          [] c = "Image Files" -> im
          [] c = "Captions" -> cap
          [] c = "MD5" -> md]

ImgP == <<"i", "/", "p">>
ImgQ == <<"i", "/", "q">>
ImgQR == <<"i", "/", "q", ";", "i", "/", "r">>
CapK == S1("k")
CapLM == <<"l", ";", "m">>
HashH == S1("h")
HashGH == <<"g", ";", "h">>
TargetU1 == <<"U", " ", "1">>
TargetU_1 == <<"U", "_", "1">>

\* The base registry: three rows in two (target, conjugate) groups, valid.
BaseRegistry ==
    << Row(S1("T"), S1("c"), S1("v"), S1("a"), <<"a", ";", "b">>, NA, ImgP, CapK, HashH),
       Row(S1("T"), S1("c"), S1("w"), S1("b"), S1("a"), S1("b"), ImgP, CapK, HashH),
       Row(TargetU1, S1("c"), S1("v"), S1("c"), S1("c"), NA, ImgQR, CapLM, HashGH) >>

FiveOrcids == Semi(<<S1("a"), S1("b"), S1("c"), S1("d"), S1("e")>>)
SixOrcids == Semi(<<S1("a"), S1("b"), S1("c"), S1("d"), S1("e"), S1("f")>>)
FiveRepeated == Semi(<<S1("a"), S1("b"), S1("c"), S1("d"), S1("e"), S1("a")>>)

Empty == <<>>
Blank == <<" ">>

\* The values an edit can give the cell of row i and column c.
CellPool(i, c) ==
    CASE i = 1 /\ c = TargetCol -> {Empty, TargetU_1}
      [] i = 1 /\ c = "Conjugate" -> {Blank}
      [] i = 1 /\ c = "Vendor" -> {Empty, S1("x")}
      [] i = 1 /\ c = "Contributor" -> {Blank, S1("b"), NA}
      [] i = 1 /\ c = "Agree" -> {Empty, NA, <<" ", "a", " ", ";", "b">>, S1("z"),
                                  FiveOrcids, SixOrcids, FiveRepeated}
      [] i = 1 /\ c = "Disagree" -> {<<"\t">>, S1("a"), FiveOrcids, SixOrcids}
      [] i = 1 /\ c = "Image Files" -> {Empty, NA}
      [] i = 1 /\ c = "Captions" -> {Blank, CapLM}
      [] i = 1 /\ c = "MD5" -> {Empty, S1("g")}
      [] i = 2 /\ c = "Vendor" -> {S1("v")}
      [] i = 2 /\ c = "Contributor" -> {Empty, S1("c")}
      [] i = 2 /\ c = "Disagree" -> {NA, S1("a")}
      [] i = 3 /\ c = TargetCol -> {Blank, S1("T")}
      [] i = 3 /\ c = "Agree" -> {Empty, S1("a")}
      [] i = 3 /\ c = "Disagree" -> {S1("a"), SixOrcids}
      [] i = 3 /\ c = "Captions" -> {CapK}
      [] i = 3 /\ c = "MD5" -> {Empty, NA}
      [] OTHER -> {}

\* The rule configuration file: whether it holds the two keys the code
\* looks for.
BaseConfig == [column_is_in |-> TRUE, multi_value_column_is_in |-> TRUE]

\* A point edit of the input: a cell of the registry given another value of
\* its column's pool, or a key dropped from the rule configuration.
CellEdits ==
    UNION {{[kind |-> "cell", row |-> i, col |-> c, val |-> v] : v \in CellPool(i, c)} :
              i \in DOMAIN BaseRegistry, c \in ColumnSet}

ConfigEdits ==
    {[kind |-> "config", row |-> 0, col |-> k, val |-> <<>>] :
        k \in {"column_is_in", "multi_value_column_is_in"}}

RegistryEdits == CellEdits \cup ConfigEdits

EditTarget(e) == <<e.kind, e.row, e.col>>

\* The sets of at most k edits of the universe, no two of one target.
RECURSIVE EditSets(_, _)
EditSets(universe, k) ==
    IF k = 0 THEN {{}}
    ELSE LET smaller == EditSets(universe, k - 1)
         IN  smaller \cup
             UNION {{s \cup {e} :
                        e \in {x \in universe :
                                 \A y \in s : EditTarget(y) # EditTarget(x)}} :
                    s \in smaller}

EditedRegistry(es) ==
    [i \in DOMAIN BaseRegistry |->
        [c \in ColumnSet |->
            IF \E e \in es : e.kind = "cell" /\ e.row = i /\ e.col = c
            THEN (CHOOSE e \in es : e.kind = "cell" /\ e.row = i /\ e.col = c).val
            ELSE BaseRegistry[i][c]]]

EditedConfig(es) ==
    [k \in DOMAIN BaseConfig |->
        BaseConfig[k] /\ ~(\E e \in es : e.kind = "config" /\ e.col = k)]

\* ------------------------------------------------------------------------
\* The supporting-material tree
\* ------------------------------------------------------------------------

\* A path is a string relative to the supporting-material root, in the
\* spelling os.walk and pathlib give it; ".md" is one atom.  mdFiles maps
\* the path of each Markdown file of the tree to its document, files the
\* path of each other file to the MD5 of its content.
\*
\* A document is what the parser reads of it:
\*   configurations, publications  the lines "# Configurations" and
\*                    "# Publications" are there
\*   notes            the table has a Notes column
\*   table            the table's rows, a cell of Contributor, Agree and
\*                    Disagree being the list of bracketed ORCIDs in it and
\*                    any other cell its stripped text
\*   names, captions  the image file names and the captions that occur in
\*                    the raw text
DocColumns == ColumnSet \ {"Image Files", "Captions", "MD5"}

MdPath(dir, stem) == dir \o <<"/">> \o stem \o <<".md">>

IsMd(path) == path # <<>> /\ path[Len(path)] = ".md"

\* The input set the registry describes: for every group and every ORCID of
\* the group a document with the group's rows of that ORCID, naming every
\* image and caption of the group, and every listed image with its listed
\* hash.
CellItems(x) ==
    IF Strip(x) = NA THEN <<>>
    ELSE LET pieces == Split(x, ";") IN [i \in DOMAIN pieces |-> Strip(pieces[i])]

CellOrcids(x) == Range(CellItems(x)) \ {<<>>, NA}

RowOrcids(r) == CellOrcids(r["Agree"]) \cup CellOrcids(r["Disagree"])

GroupKey(r) == <<r[TargetCol], r["Conjugate"]>>

GroupDir(key) ==
    LET name == key[1] \o <<"_">> \o key[2]
    IN  [i \in DOMAIN name |-> IF name[i] \in Range(invalid_chars) THEN "_" ELSE name[i]]

GroupRows(reg, key) == {i \in DOMAIN reg : GroupKey(reg[i]) = key}

RECURSIVE SeqOfSet(_)
SeqOfSet(ints) ==
    IF ints = {} THEN <<>>
    ELSE LET m == CHOOSE x \in ints : \A y \in ints : x <= y
         IN  <<m>> \o SeqOfSet(ints \ {m})

IsOrcid(x) == Len(x) = 1 /\ x # <<" ">> /\ x # <<"\t">>

WrittenRow(r) ==
    [c \in DocColumns |->
        CASE c = "Contributor" -> IF IsOrcid(r[c]) THEN <<r[c]>> ELSE <<>>
          [] c \in {"Agree", "Disagree"} -> FilterSeq(CellItems(r[c]), Range(CellItems(r[c])) \ {<<>>, NA})
          [] OTHER -> Strip(r[c])]

WrittenDoc(reg, key, o) ==
    LET mine == SeqOfSet({i \in GroupRows(reg, key) : o \in RowOrcids(reg[i])})
        all == GroupRows(reg, key)
    IN  [configurations |-> TRUE, publications |-> TRUE, notes |-> TRUE,
         table |-> [k \in DOMAIN mine |-> WrittenRow(reg[mine[k]])],
         names |-> UNION {{PathName(f) : f \in Range(CellItems(reg[i]["Image Files"]))} : i \in all},
         captions |-> UNION {Range(CellItems(reg[i]["Captions"])) : i \in all}]

GroupKeys(reg) == {GroupKey(reg[i]) : i \in DOMAIN reg}

GroupOrcids(reg, key) == UNION {RowOrcids(reg[i]) : i \in GroupRows(reg, key)}

WrittenMdPaths(reg) ==
    UNION {{MdPath(GroupDir(key), o) : o \in GroupOrcids(reg, key)} : key \in GroupKeys(reg)}

WrittenMdFiles(reg) ==
    [p \in WrittenMdPaths(reg) |->
        LET key == CHOOSE k \in GroupKeys(reg) :
                       \E o \in GroupOrcids(reg, k) : MdPath(GroupDir(k), o) = p
            o == CHOOSE x \in GroupOrcids(reg, key) : MdPath(GroupDir(key), x) = p
        IN  WrittenDoc(reg, key, o)]

ListedImages(reg) ==
    UNION {Range(CellItems(reg[i]["Image Files"])) : i \in DOMAIN reg}

WrittenFiles(reg) ==
    [f \in ListedImages(reg) |->
        LET i == CHOOSE k \in DOMAIN reg : f \in Range(CellItems(reg[k]["Image Files"]))
            imgs == CellItems(reg[i]["Image Files"])
            md5s == CellItems(reg[i]["MD5"])
            n == CHOOSE k \in DOMAIN imgs : imgs[k] = f
        IN  IF n \in DOMAIN md5s THEN md5s[n] ELSE <<"h">>]

\* A point edit of the tree.
ExtraMd == <<"r", ".md">>
ExtraFile == <<"i", "/", "x">>
IgnoredFile == <<"i", "/", ".DS_Store">>

\* The ORCID a document path ends with.
PathStem(p) == p[Len(p) - 1]

TreeEdits(reg) ==
    {[kind |-> k, row |-> 0, col |-> p, val |-> <<>>] :
        k \in {"doc_delete", "doc_no_configurations", "doc_drop_row", "doc_no_captions"},
        p \in WrittenMdPaths(reg)}
    \cup {[kind |-> k, row |-> 0, col |-> p, val |-> <<>>] :
        k \in {"doc_no_notes", "doc_repeat_row"},
        p \in {q \in WrittenMdPaths(reg) :
                 PathStem(q) = "a" /\ Len(WrittenMdFiles(reg)[q].table) >= 2}}
    \cup {[kind |-> "doc_no_orcid", row |-> 0, col |-> p, val |-> <<>>] :
        p \in {q \in WrittenMdPaths(reg) : PathStem(q) = "b"}}
    \cup {[kind |-> "file_delete", row |-> 0, col |-> f, val |-> <<>>] :
        f \in ListedImages(reg) \ {ImgQ}}
    \cup {[kind |-> "file_alter", row |-> 0, col |-> f, val |-> <<>>] :
        f \in ListedImages(reg) \cap {ImgQ}}
    \cup {[kind |-> "add", row |-> 0, col |-> p, val |-> <<>>] :
        p \in {ExtraMd, ExtraFile, IgnoredFile}}

Has(es, k, p) == \E e \in es : e.kind = k /\ e.col = p

EditedMdFiles(reg, es) ==
    LET written == WrittenMdFiles(reg)
        kept == {p \in DOMAIN written : ~Has(es, "doc_delete", p)}
                    \cup {p \in {ExtraMd} : Has(es, "add", p)}
    IN  [p \in kept |->
            IF p \notin DOMAIN written
            THEN [configurations |-> TRUE, publications |-> TRUE, notes |-> TRUE,
                  table |-> <<>>, names |-> {}, captions |-> {}]
            ELSE LET d == written[p]
                     rows == IF Has(es, "doc_drop_row", p) /\ d.table # <<>>
                             THEN Tail(d.table)
                             ELSE IF Has(es, "doc_repeat_row", p)
                             THEN <<d.table[1], d.table[1]>> \o SubSeq(d.table, 3, Len(d.table))
                             ELSE d.table
                 IN  [configurations |-> ~Has(es, "doc_no_configurations", p),
                      publications |-> TRUE,
                      notes |-> ~Has(es, "doc_no_notes", p),
                      table |-> IF Has(es, "doc_no_orcid", p) /\ rows # <<>>
                                THEN <<[rows[1] EXCEPT !["Contributor"] = <<>>]>> \o Tail(rows)
                                ELSE rows,
                      names |-> d.names,
                      captions |-> IF Has(es, "doc_no_captions", p) THEN {} ELSE d.captions]]

EditedFiles(reg, es) ==
    LET written == WrittenFiles(reg)
        kept == {f \in DOMAIN written : ~Has(es, "file_delete", f)}
                    \cup {f \in {ExtraFile, IgnoredFile} : Has(es, "add", f)}
    IN  [f \in kept |->
            IF f \notin DOMAIN written \/ Has(es, "file_alter", f) THEN <<"X">>
            ELSE written[f]]

\* ------------------------------------------------------------------------
\* State
\* ------------------------------------------------------------------------

VARIABLES
    registry,   \* df as read from the csv file: the rows, every cell a string
    config,     \* the rule configuration: which of the two keys it holds
    edits_left, \* how many more point edits the input set may differ by
    mdFiles,    \* the Markdown files under the root: path -> document
    files,      \* the other files under the root: path -> MD5 of the content
    pc,         \* the check validate_reagent_resources is about to run
    ret,        \* <<>> until the function returns, then <<value>>
    exc,        \* "" or the exception that left the function
    diag,       \* what was printed to stderr, in order
    group,      \* validate_supporting_material: the number of the group
    orcids,     \* ... the ORCIDs of the group the loop has yet to visit
    image_file_name_caption_index,  \* ... the images no document names yet
    file_names, \* ... the document paths visited (a list that is only ever
                \*     read as a set: line 213)
    status,     \* ... the status of the group
    md_file_path,  \* ... the document path of the last iteration
    res,        \* the (file_names, status) results of the groups so far
    run,        \* 1 in the first run of the validator on the input set, 2 in
                \* a second run on the same input set
    first       \* <<>>, or what the first run ended with: <<ret, exc, diag>>

inputs == <<registry, config, edits_left, mdFiles, files>>
locals == <<group, orcids, image_file_name_caption_index, file_names, status, md_file_path>>
runs == <<run, first>>
vars == <<registry, config, edits_left, mdFiles, files, pc, ret, exc, diag, group, orcids,
          image_file_name_caption_index, file_names, status, md_file_path, res, run, first>>

\* The registry and the configuration are at most MaxEdits edits away from
\* the base.  Nothing reads the tree before the supporting-material check:
\* its content is fixed when the validator first looks at it (Tree).
Init ==
    /\ \E es \in EditSets(RegistryEdits, MaxEdits) :
         /\ registry = EditedRegistry(es)
         /\ config = EditedConfig(es)
         /\ edits_left = MaxEdits - Cardinality(es)
    /\ mdFiles = <<>>
    /\ files = <<>>
    /\ pc = "empty_cells"
    /\ ret = <<>>
    /\ exc = ""
    /\ diag = <<>>
    /\ group = 0
    /\ orcids = {}
    /\ image_file_name_caption_index = <<>>
    /\ file_names = {}
    /\ status = 0
    /\ md_file_path = <<>>
    /\ res = <<>>
    /\ run = 1
    /\ first = <<>>

\* The supporting-material tree as the validator finds it: what the registry
\* describes, but for the edits that are left.
Tree ==
    /\ pc = "tree"
    /\ IF run = 1
       THEN \E ts \in EditSets(TreeEdits(registry), edits_left) :
                /\ mdFiles' = EditedMdFiles(registry, ts)
                /\ files' = EditedFiles(registry, ts)
                /\ edits_left' = edits_left - Cardinality(ts)
       ELSE UNCHANGED <<mdFiles, files, edits_left>>
    /\ pc' = "supporting_material"
    /\ UNCHANGED <<registry, config, ret, exc, diag, locals, res, runs>>

\* return value
Return(value) ==
    /\ pc' = "done"
    /\ ret' = <<value>>

Message(check, what) == [check |-> check, what |-> what]

\* ------------------------------------------------------------------------
\* validate_reagent_resources: the checks of the rows
\* ------------------------------------------------------------------------

\* The indexes i of df (0-based) that satisfy test, in order.
RECURSIVE IndexesFrom(_, _, _)
IndexesFrom(df, test(_), k) ==
    IF k > Len(df) THEN <<>>
    ELSE (IF test(df[k]) THEN <<k - 1>> ELSE <<>>) \o IndexesFrom(df, test, k + 1)

Indexes(df, test(_)) == IndexesFrom(df, test, 1)

\* A mutant of Shifted: the header line is not counted.
ShiftedByOne(indexes) == [k \in DOMAIN indexes |-> indexes[k] + 1]

Shifted(indexes) == [k \in DOMAIN indexes |-> indexes[k] + shift_index]

\* df.map(lambda x: x.strip()) == "" and the (column, rows) list of the
\* columns that have an empty cell
\* A mutant of ProblematicCells: the search stops at the first blank cell.
FirstProblematicCell(df, columns) ==
    LET blank == {<<k, i>> \in (DOMAIN columns) \X (DOMAIN df) : Strip(df[i][columns[k]]) = <<>>}
    IN  IF blank = {} THEN <<>>
        ELSE LET k == CHOOSE x \in {b[1] : b \in blank} : \A b \in blank : x <= b[1]
                 i == CHOOSE x \in {b[2] : b \in {y \in blank : y[1] = k}} :
                          \A b \in {y \in blank : y[1] = k} : x <= b[2]
             IN  << <<columns[k], <<i - 1 + shift_index>> >> >>

RECURSIVE ProblematicCells(_, _)
ProblematicCells(df, columns) ==
    IF columns = <<>> THEN <<>>
    ELSE LET c == Head(columns)
             IsEmptyCell(r) == Strip(r[c]) = <<>>
             empty_cell_indexes == Indexes(df, IsEmptyCell)
         IN  (IF empty_cell_indexes # <<>>
              THEN << <<c, Shifted(empty_cell_indexes)>> >> ELSE <<>>)
             \o ProblematicCells(df, Tail(columns))

CheckEmptyCells ==
    /\ pc = "empty_cells"
    /\ LET problematic_cells == ProblematicCells(registry, Columns)
       IN  IF problematic_cells # <<>>
           THEN /\ diag' = Append(diag, Message("empty_cells", problematic_cells))
                /\ Return(1)
           ELSE /\ pc' = "schema"
                /\ UNCHANGED <<ret, diag>>
    /\ UNCHANGED <<inputs, locals, exc, res>>
    /\ UNCHANGED runs

\* A mutant of zenodo_orcids: "NA" is not appended.
OrcidsWithoutNA == CreatorOrcids

\* orcids: the creators' ORCIDs and "NA"
zenodo_orcids == CreatorOrcids \cup {NA}

vendor_names == VendorNames

\* configuration_dict["column_is_in"] after the update: the columns bound to
\* a set of values.  Without the key, the second assignment replaces the
\* dictionary the first one made.
column_is_in(configuration_dict) ==
    IF configuration_dict.column_is_in
    THEN [c \in {"Contributor", "Vendor"} |->
             IF c = "Contributor" THEN zenodo_orcids ELSE vendor_names]
    ELSE [c \in {"Vendor"} |-> vendor_names]

multi_value_column_is_in(configuration_dict) ==
    [c \in {"Agree", "Disagree"} |-> zenodo_orcids]

\* The schema validator (utilities.validate_df): every cell of a column_is_in
\* column is one of its values, and so is every ";"-separated token of a
\* multi_value_column_is_in column.
validate_df(df, is_in, multi_is_in) ==
    IF \A i \in DOMAIN df :
         /\ \A c \in DOMAIN is_in : df[i][c] \in is_in[c]
         /\ \A c \in DOMAIN multi_is_in :
              Range(StripAll(Split(df[i][c], ";"))) \subseteq multi_is_in[c]
    THEN 0 ELSE 1

CheckSchema ==
    /\ pc = "schema"
    /\ LET r == validate_df(registry, column_is_in(config), multi_value_column_is_in(config))
       IN  IF r # 0
           THEN /\ diag' = Append(diag, Message("schema", <<>>))
                /\ Return(r)
           ELSE /\ pc' = "duplicates"
                /\ UNCHANGED <<ret, diag>>
    /\ UNCHANGED <<inputs, locals, exc, res>>
    /\ UNCHANGED runs

\* A mutant of raw_df: only the Contributor column is dropped.
raw_df_keeps_agree(row) ==
    [c \in ColumnSet \ {"Contributor"} |-> row[c]]

\* df.drop(["Contributor", "Agree", "Disagree"], axis=1), one row of it
raw_df(row) ==
    [c \in ColumnSet \ {"Contributor", "Agree", "Disagree"} |-> row[c]]

\* raw_df.duplicated(keep=False): the positions of the rows that repeat
all_duplicates(df) ==
    {i \in DOMAIN df : \E j \in DOMAIN df : j # i /\ raw_df(df[j]) = raw_df(df[i])}

\* The groups of equal rows, each the row numbers of its members in order.
\* (groupby orders the groups by their content; the model keeps them as a set.)
duplicated_indexes(df) ==
    {Shifted(SeqOfSet({j - 1 : j \in {k \in DOMAIN df : raw_df(df[k]) = raw_df(df[i])}})) :
        i \in all_duplicates(df)}

CheckDuplicates ==
    /\ pc = "duplicates"
    /\ IF duplicated_indexes(registry) # {}
       THEN /\ diag' = Append(diag, Message("duplicates", duplicated_indexes(registry)))
            /\ Return(1)
       ELSE /\ pc' = "contributor"
            /\ UNCHANGED <<ret, diag>>
    /\ UNCHANGED <<inputs, locals, exc, res>>
    /\ UNCHANGED runs

\* df["Agree"], df["Disagree"] after lines 137-142
Agree(row) == ParseOrcids(row["Agree"])
Disagree(row) == ParseOrcids(row["Disagree"])

\* A mutant of ContributorMissing: only the Agree column is searched.
ContributorNotInAgree(row) ==
    row["Contributor"] \notin Range(Agree(row))

\* not (x.iloc[0] in x.iloc[1] + x.iloc[2])
ContributorMissing(row) ==
    row["Contributor"] \notin Range(Agree(row) \o Disagree(row))

CheckContributor ==
    /\ pc = "contributor"
    /\ LET problem_row_indexes == Indexes(registry, ContributorMissing)
       IN  IF problem_row_indexes # <<>>
           THEN /\ diag' = Append(diag, Message("contributor", Shifted(problem_row_indexes)))
                /\ Return(1)
           ELSE /\ pc' = "cardinality"
                /\ UNCHANGED <<ret, diag>>
    /\ UNCHANGED <<inputs, locals, exc, res>>
    /\ UNCHANGED runs

\* A mutant of TooManyOrcids: the comparison is >=.
AtLeastMaxOrcids(row) ==
    Len(Agree(row)) >= MAX_ORCID_ENTRIES \/ Len(Disagree(row)) >= MAX_ORCID_ENTRIES

\* len(x.iloc[0]) > MAX_ORCID_ENTRIES or len(x.iloc[1]) > MAX_ORCID_ENTRIES
TooManyOrcids(row) ==
    Len(Agree(row)) > MAX_ORCID_ENTRIES \/ Len(Disagree(row)) > MAX_ORCID_ENTRIES

CheckCardinality ==
    /\ pc = "cardinality"
    /\ LET problem_row_indexes == Indexes(registry, TooManyOrcids)
       IN  IF problem_row_indexes # <<>>
           THEN /\ diag' = Append(diag, Message("cardinality", Shifted(problem_row_indexes)))
                /\ Return(1)
           ELSE /\ pc' = "disjoint"
                /\ UNCHANGED <<ret, diag>>
    /\ UNCHANGED <<inputs, locals, exc, res>>
    /\ UNCHANGED runs

\* A mutant of NotDisjoint: no row is found.
AlwaysDisjoint(row) == FALSE

\* bool(set(x.iloc[0]).intersection(x.iloc[1]))
NotDisjoint(row) == Range(Agree(row)) \cap Range(Disagree(row)) # {}

\* Lines 173-188.  problem_row_indexes is an Index of integers, so the
\* comprehension "[i + shift_index for i in indexes] for indexes in
\* problem_row_indexes" iterates over an integer: with any row in it, a
\* TypeError leaves the function before anything is printed or returned.
CheckDisjoint ==
    /\ pc = "disjoint"
    /\ LET problem_row_indexes == Indexes(registry, NotDisjoint)
       IN  IF problem_row_indexes # <<>>
           THEN /\ exc' = "TypeError"
                /\ pc' = "done"
           ELSE /\ pc' = "tree"
                /\ exc' = exc
    /\ UNCHANGED <<inputs, locals, ret, diag, res>>
    /\ UNCHANGED runs

\* ------------------------------------------------------------------------
\* validate_supporting_material
\* ------------------------------------------------------------------------

\* df[["Image Files", "Captions", "MD5"]] after lines 194-196
ImageFiles(row) == ParseList(row["Image Files"])
Captions(row) == ParseList(row["Captions"])
MD5(row) == ParseList(row["MD5"])

\* df[[target, conjugate]].drop_duplicates(): the pairs in the order of their
\* first rows
RECURSIVE UniquePairs(_, _, _)
UniquePairs(df, k, seen) ==
    IF k > Len(df) THEN <<>>
    ELSE LET pair == <<df[k][TargetCol], df[k]["Conjugate"]>>
         IN  IF pair \in seen THEN UniquePairs(df, k + 1, seen)
             ELSE <<pair>> \o UniquePairs(df, k + 1, seen \cup {pair})

unique_target_conjugate(df) == UniquePairs(df, 1, {})

\* The indexes of the rows of the pair, in order.
tc_rows(df, target_conjugate) ==
    LET InGroup(r) == r[TargetCol] = target_conjugate[1]
                        /\ r["Conjugate"] = target_conjugate[2]
    IN  Indexes(df, InGroup)

\* set().union(*(pd.concat([tc_rows["Agree"], tc_rows["Disagree"]]))), less "NA"
group_orcids(df, target_conjugate) ==
    LET rows == tc_rows(df, target_conjugate)
    IN  UNION {Range(Agree(df[rows[k] + 1])) \cup Range(Disagree(df[rows[k] + 1])) :
                  k \in DOMAIN rows} \ {NA}

\* A mutant of data_path: the characters are not replaced.
data_path_as_written(target_conjugate) ==
    target_conjugate[1] \o <<"_">> \o target_conjugate[2]

\* The directory of the pair's documents, relative to the root.
data_path(target_conjugate) ==
    replace_char_list(target_conjugate[1] \o <<"_">> \o target_conjugate[2],
                      invalid_chars, "_")

Min(a, b) == IF a <= b THEN a ELSE b

\* list(zip(image_fnames, image_captions, [i] * len(image_fnames)))
ZipRow(row, i) ==
    [k \in 1..Min(Len(ImageFiles(row)), Len(Captions(row))) |->
        <<ImageFiles(row)[k], Captions(row)[k], i>>]

RECURSIVE ZipRows(_, _)
ZipRows(df, rows) ==
    IF rows = <<>> THEN <<>>
    ELSE ZipRow(df[Head(rows) + 1], Head(rows)) \o ZipRows(df, Tail(rows))

\* Every file of the tree.
AllFiles == DOMAIN mdFiles \cup DOMAIN files

\* Lines 363-392: the start of the call for the next pair.
StartGroup ==
    /\ pc = "supporting_material"
    /\ LET target_conjugate == unique_target_conjugate(registry)[group + 1]
       IN  /\ orcids' = group_orcids(registry, target_conjugate)
           /\ image_file_name_caption_index' =
                  ZipRows(registry, tc_rows(registry, target_conjugate))
    /\ group' = group + 1
    /\ file_names' = {}
    /\ status' = 0
    /\ md_file_path' = <<>>
    /\ pc' = "orcid"
    /\ UNCHANGED <<inputs, ret, exc, diag, res>>
    /\ UNCHANGED runs

\* The rows of the pair that name the ORCID, as the comparison sees them:
\* Agree and Disagree as sets, the image columns dropped.
orcid_configurations(df, target_conjugate, orcid) ==
    LET rows == tc_rows(df, target_conjugate)
        Names(k) == orcid \in Range(Agree(df[k + 1])) \/ orcid \in Range(Disagree(df[k + 1]))
        mine == FilterSeq(rows, {k \in Range(rows) : Names(k)})
    IN  [n \in DOMAIN mine |->
            [c \in DocColumns |->
                CASE c = "Agree" -> Range(Agree(df[mine[n] + 1]))
                  [] c = "Disagree" -> Range(Disagree(df[mine[n] + 1]))
                  [] OTHER -> df[mine[n] + 1][c]]]

\* A mutant of ParseError: the section lines are not looked for.
ParseErrorOfTable(doc) ==
    IF ~doc.notes THEN "KeyError"
    ELSE IF \E k \in DOMAIN doc.table : doc.table[k]["Contributor"] = <<>> THEN "IndexError"
    ELSE ""

\* The exception the parse of the document raises, or "".
ParseError(doc) ==
    IF ~doc.configurations THEN "ValueError"
    ELSE IF ~doc.publications THEN "ValueError"
    ELSE IF ~doc.notes THEN "KeyError"
    ELSE IF \E k \in DOMAIN doc.table : doc.table[k]["Contributor"] = <<>> THEN "IndexError"
    ELSE ""

\* The table of the document after lines 446-472.
supporting_orcid_configurations(doc) ==
    [n \in DOMAIN doc.table |->
        [c \in DocColumns |->
            CASE c \in {"Agree", "Disagree"} -> Range(doc.table[n][c])
              [] c = "Contributor" -> Head(doc.table[n][c])
              [] OTHER -> doc.table[n][c]]]

\* Lines 483-490: the lengths differ, or the rows of both tables together,
\* repeated rows dropped, are not as many as the document's.
TablesDiffer(supporting, configurations) ==
    \/ Len(supporting) # Len(configurations)
    \/ Cardinality(Range(supporting) \cup Range(configurations)) # Len(supporting)

\* A mutant of StillUnmatched: an image is dropped when its name or its
\* caption occurs.
UnmatchedByBoth(index, doc) ==
    LET Unused(e) == PathName(e[1]) \notin doc.names /\ e[2] \notin doc.captions
    IN  FilterSeq(index, {e \in Range(index) : Unused(e)})

\* Lines 420-425: the images some document has not named with their caption.
StillUnmatched(index, doc) ==
    LET Unused(e) == PathName(e[1]) \notin doc.names \/ e[2] \notin doc.captions
    IN  FilterSeq(index, {e \in Range(index) : Unused(e)})

\* Lines 393-498: one iteration of the loop over the ORCIDs of the pair, in
\* the order the set gives them.
OrcidStep ==
    /\ pc = "orcid"
    /\ orcids # {}
    /\ \E orcid \in orcids :
         LET target_conjugate == unique_target_conjugate(registry)[group]
             path == data_path(target_conjugate) \o <<"/">> \o orcid \o <<".md">>
         IN  /\ orcids' = orcids \ {orcid}
             /\ md_file_path' = path
             /\ file_names' = file_names \cup {path}
             /\ IF path \notin AllFiles
                THEN /\ diag' = Append(diag, Message("missing_document", path))
                     /\ status' = 1
                     /\ UNCHANGED image_file_name_caption_index
                ELSE LET doc == mdFiles[path]
                         error == ParseError(doc)
                     IN  /\ image_file_name_caption_index' =
                                StillUnmatched(image_file_name_caption_index, doc)
                         /\ IF error # ""
                            THEN /\ diag' = Append(diag, Message("exception", <<path, error>>))
                                 /\ status' = 1
                            ELSE IF TablesDiffer(supporting_orcid_configurations(doc),
                                     orcid_configurations(registry, target_conjugate, orcid))
                            THEN /\ diag' = Append(diag, Message("contents_do_not_match", path))
                                 /\ status' = 1
                            ELSE UNCHANGED <<diag, status>>
    /\ UNCHANGED <<inputs, pc, ret, exc, group, res>>
    /\ UNCHANGED runs

\* The message of lines 501-507 for every entry of the index.
UnusedMessages(index, path) ==
    [k \in DOMAIN index |->
        Message("image_not_used", <<index[k][2], index[k][1], index[k][3] + shift_index, path>>)]

\* Lines 499-509 and the return into the apply of lines 202-207.  With no
\* ORCID in the pair md_file_path is unbound when the message reads it.
EndGroup ==
    /\ pc = "orcid"
    /\ orcids = {}
    /\ IF image_file_name_caption_index # <<>> /\ md_file_path = <<>>
       THEN /\ exc' = "UnboundLocalError"
            /\ pc' = "done"
            /\ status' = 1
            /\ UNCHANGED <<diag, res>>
       ELSE /\ diag' = diag \o UnusedMessages(image_file_name_caption_index, md_file_path)
            /\ status' = IF image_file_name_caption_index # <<>> THEN 1 ELSE status
            /\ res' = Append(res, <<file_names, status'>>)
            /\ pc' = IF group < Len(unique_target_conjugate(registry))
                     THEN "supporting_material" ELSE "superfluous_md"
            /\ exc' = exc
    /\ UNCHANGED <<inputs, ret, group, orcids, image_file_name_caption_index,
                   file_names, md_file_path>>
    /\ UNCHANGED runs

\* ------------------------------------------------------------------------
\* validate_reagent_resources: the tree against the registry
\* ------------------------------------------------------------------------

\* Lines 208-213
md_file_paths_from_csv(results) == UNION {results[k][1] : k \in DOMAIN results}

\* pathlib.Path(root).rglob("*.md")
md_file_paths_from_supporting_material_dir == {p \in AllFiles : IsMd(p)}

\* Lines 208-228
SuperfluousMd ==
    /\ pc = "superfluous_md"
    /\ IF \E k \in DOMAIN res : res[k][2] # 0
       THEN /\ Return(1)
            /\ UNCHANGED diag
       ELSE LET superfluous_md_files ==
                    md_file_paths_from_supporting_material_dir \ md_file_paths_from_csv(res)
            IN  IF superfluous_md_files # {}
                THEN /\ diag' = Append(diag, Message("superfluous_md", superfluous_md_files))
                     /\ Return(1)
                ELSE /\ pc' = "images"
                     /\ UNCHANGED <<ret, diag>>
    /\ UNCHANGED <<inputs, locals, exc, res>>
    /\ UNCHANGED runs

\* (len(x.iloc[0]) != len(x.iloc[1])) or (len(x.iloc[1]) != len(x.iloc[2]))
CountsDiffer(row) ==
    Len(ImageFiles(row)) # Len(Captions(row)) \/ Len(Captions(row)) # Len(MD5(row))

\* utilities.md5sum of a file of the tree
md5sum(f) == IF f \in DOMAIN files THEN files[f] ELSE <<"md">>

\* not os.path.isfile(f)
IsMissing(f) == f \notin AllFiles

\* A mutant of IsMismatch: the hash is not compared.
NeverMismatch(f, md5) == FALSE

\* os.path.isfile(f) and md5sum(f) != md5
IsMismatch(f, md5) == ~IsMissing(f) /\ md5sum(f) # md5

\* Lines 273-280: the (row number, file) pairs of the missing files (list
\* "missing") or of the files whose hash differs (list "mismatch"), in order.
RECURSIVE RowFiles(_, _, _, _)
RowFiles(row, i, k, list) ==
    IF k > Min(Len(ImageFiles(row)), Len(MD5(row))) THEN <<>>
    ELSE LET f == ImageFiles(row)[k]
             listed == IF list = "missing" THEN IsMissing(f) ELSE IsMismatch(f, MD5(row)[k])
         IN  (IF listed THEN << <<i, f>> >> ELSE <<>>) \o RowFiles(row, i, k + 1, list)

RECURSIVE ListedFiles(_, _, _)
ListedFiles(df, n, list) ==
    IF n > Len(df) THEN <<>>
    ELSE RowFiles(df[n], n - 1 + shift_index, 1, list) \o ListedFiles(df, n + 1, list)

missing_file_row_indexes_name == ListedFiles(registry, 1, "missing")

md5_mismatch_file_row_indexes_name == ListedFiles(registry, 1, "mismatch")

\* A mutant of FILES_IGNORE: no file is ignored.
NoFilesIgnored == {}

FILES_IGNORE == {<<".DS_Store">>}

\* Lines 305-314: the files of the tree that are not Markdown files and not
\* ignored.
image_file_paths_from_supporting_material_dir ==
    {p \in AllFiles : ~IsMd(p) /\ PathName(p) \notin FILES_IGNORE}

\* Lines 315-318
image_file_paths_from_csv == UNION {Range(ImageFiles(registry[n])) : n \in DOMAIN registry}

\* validate_images, lines 249-329
ValidateImages ==
    /\ pc = "images"
    /\ LET problem_row_indexes == Indexes(registry, CountsDiffer)
           superfluous_image_files ==
               image_file_paths_from_supporting_material_dir \ image_file_paths_from_csv
       IN  IF problem_row_indexes # <<>>
           THEN /\ diag' = Append(diag, Message("image_counts", Shifted(problem_row_indexes)))
                /\ Return(1)
           ELSE IF missing_file_row_indexes_name # <<>> \/ md5_mismatch_file_row_indexes_name # <<>>
           THEN /\ diag' = diag
                    \o (IF missing_file_row_indexes_name # <<>>
                        THEN <<Message("missing_images", missing_file_row_indexes_name)>>
                        ELSE <<>>)
                    \o (IF md5_mismatch_file_row_indexes_name # <<>>
                        THEN <<Message("md5_mismatch", md5_mismatch_file_row_indexes_name)>>
                        ELSE <<>>)
                /\ Return(1)
           ELSE IF superfluous_image_files # {}
           THEN /\ diag' = Append(diag, Message("superfluous_files", superfluous_image_files))
                /\ Return(1)
           ELSE /\ Return(0)
                /\ UNCHANGED diag
    /\ UNCHANGED <<inputs, locals, exc, res>>
    /\ UNCHANGED runs

Next ==
    \/ CheckEmptyCells
    \/ CheckSchema
    \/ CheckDuplicates
    \/ CheckContributor
    \/ CheckCardinality
    \/ CheckDisjoint
    \/ Tree
    \/ StartGroup
    \/ OrcidStep
    \/ EndGroup
    \/ SuperfluousMd
    \/ ValidateImages

Spec == Init /\ [][Next]_vars

\* The validator is run a second time on the input set of the first run.
Rerun ==
    /\ pc = "done"
    /\ run = 1
    /\ run' = 2
    /\ first' = <<ret, exc, diag>>
    /\ pc' = "empty_cells"
    /\ ret' = <<>>
    /\ exc' = ""
    /\ diag' = <<>>
    /\ group' = 0
    /\ orcids' = {}
    /\ image_file_name_caption_index' = <<>>
    /\ file_names' = {}
    /\ status' = 0
    /\ md_file_path' = <<>>
    /\ res' = <<>>
    /\ UNCHANGED inputs

NextTwice == Next \/ Rerun

SpecTwice == Init /\ [][NextTwice]_vars

\* ------------------------------------------------------------------------
\* What the specification says of an input set, stated on the files alone
\* ------------------------------------------------------------------------

NoBlankCells(reg) ==
    \A i \in DOMAIN reg : \A c \in ColumnSet : Strip(reg[i][c]) # <<>>

SchemaAccepts(reg, cfg) ==
    validate_df(reg, column_is_in(cfg), multi_value_column_is_in(cfg)) = 0

OtherColumns == ColumnSet \ {"Contributor", "Agree", "Disagree"}

SameButContributors(reg, i, j) == \A c \in OtherColumns : reg[i][c] = reg[j][c]

NoDuplicateRows(reg) ==
    \A i, j \in DOMAIN reg : i # j => ~SameButContributors(reg, i, j)

\* The number of entries of an Agree or Disagree cell: its tokens that are
\* neither empty nor NA, repeats counted.
EntryCount(x) ==
    LET pieces == Split(x, ";")
    IN  Cardinality({k \in DOMAIN pieces : Strip(pieces[k]) \notin {<<>>, NA}})

ContributorIsIn(r) == r["Contributor"] \in RowOrcids(r)

AtMostFiveEntries(r) == EntryCount(r["Agree"]) <= 5 /\ EntryCount(r["Disagree"]) <= 5

AgreeDisagreeDisjoint(r) == CellOrcids(r["Agree"]) \cap CellOrcids(r["Disagree"]) = {}

EqualCounts(r) ==
    /\ Len(CellItems(r["Image Files"])) = Len(CellItems(r["Captions"]))
    /\ Len(CellItems(r["Captions"])) = Len(CellItems(r["MD5"]))

\* The registry passes every check of the rows (checks 1 to 7).
RowsPass(reg, cfg) ==
    /\ NoBlankCells(reg)
    /\ SchemaAccepts(reg, cfg)
    /\ NoDuplicateRows(reg)
    /\ \A i \in DOMAIN reg :
         ContributorIsIn(reg[i]) /\ AtMostFiveEntries(reg[i]) /\ AgreeDisagreeDisjoint(reg[i])

\* The document paths the registry expects.
ExpectedMdPaths(reg, key) == {MdPath(GroupDir(key), o) : o \in GroupOrcids(reg, key)}

\* The rows of the registry a document of ORCID o of the group has to hold.
ExpectedRows(reg, key, o) ==
    {[c \in DocColumns |->
         CASE c \in {"Agree", "Disagree"} -> CellOrcids(reg[i][c])
           [] OTHER -> reg[i][c]] :
        i \in {k \in GroupRows(reg, key) : o \in RowOrcids(reg[k])}}

WellFormed(doc) ==
    /\ doc.configurations /\ doc.publications /\ doc.notes
    /\ \A k \in DOMAIN doc.table : doc.table[k]["Contributor"] # <<>>

DocRows(doc) ==
    {[c \in DocColumns |->
         CASE c \in {"Agree", "Disagree"} -> Range(doc.table[k][c])
           [] c = "Contributor" -> doc.table[k][c][1]
           [] OTHER -> doc.table[k][c]] :
        k \in DOMAIN doc.table}

\* The document holds exactly the expected rows, each once.
DocMatches(doc, reg, key, o) ==
    /\ WellFormed(doc)
    /\ DocRows(doc) = ExpectedRows(reg, key, o)
    /\ Len(doc.table) = Cardinality(ExpectedRows(reg, key, o))

\* The document names every image and caption of the rows of its ORCID.
DocReferences(doc, reg, key, o) ==
    \A i \in {k \in GroupRows(reg, key) : o \in RowOrcids(reg[k])} :
        /\ \A f \in Range(CellItems(reg[i]["Image Files"])) : PathName(f) \in doc.names
        /\ \A cap \in Range(CellItems(reg[i]["Captions"])) : cap \in doc.captions

DocumentsValid(reg) ==
    \A key \in GroupKeys(reg) : \A o \in GroupOrcids(reg, key) :
        LET p == MdPath(GroupDir(key), o)
        IN  /\ p \in DOMAIN mdFiles
            /\ DocMatches(mdFiles[p], reg, key, o)
            /\ DocReferences(mdFiles[p], reg, key, o)

ImagesValid(reg) ==
    \A i \in DOMAIN reg :
        LET imgs == CellItems(reg[i]["Image Files"])
            md5s == CellItems(reg[i]["MD5"])
        IN  \A k \in DOMAIN imgs :
                imgs[k] \in DOMAIN files /\ k \in DOMAIN md5s /\ files[imgs[k]] = md5s[k]

NoExtraFiles(reg) ==
    /\ DOMAIN mdFiles \subseteq UNION {ExpectedMdPaths(reg, key) : key \in GroupKeys(reg)}
    /\ DOMAIN files \subseteq ListedImages(reg)

ValidInputSet ==
    /\ RowsPass(registry, config)
    /\ \A i \in DOMAIN registry : EqualCounts(registry[i])
    /\ DocumentsValid(registry)
    /\ ImagesValid(registry)
    /\ NoExtraFiles(registry)

\* ------------------------------------------------------------------------
\* Claims
\* ------------------------------------------------------------------------

Printed(check) == {k \in DOMAIN diag : diag[k].check = check}

RowNumber(i) == i + 1

RowNumbers(rows) == SeqOfSet({RowNumber(i) : i \in rows})

\* C2: a return value of 0 implies that in every row the Contributor is in
\* Agree or Disagree, Agree and Disagree are disjoint, each has at most 5
\* members, the numbers of image files, captions and hashes are equal, and no
\* two rows are equal outside Contributor, Agree and Disagree.
C2_ZeroImpliesRowInvariants ==
    (pc = "done" /\ ret = <<0>>) =>
        /\ \A i \in DOMAIN registry :
             /\ ContributorIsIn(registry[i])
             /\ AgreeDisagreeDisjoint(registry[i])
             /\ AtMostFiveEntries(registry[i])
             /\ Cardinality(CellOrcids(registry[i]["Agree"])) <= 5
             /\ Cardinality(CellOrcids(registry[i]["Disagree"])) <= 5
             /\ EqualCounts(registry[i])
        /\ NoDuplicateRows(registry)

\* C2 witness: the validator returned 0 for a registry whose Disagree column
\* was edited.
C2_Witness ==
    /\ pc = "done"
    /\ ret = <<0>>
    /\ \E i \in DOMAIN registry : registry[i]["Disagree"] # BaseRegistry[i]["Disagree"]

\* C3 (as the specification states it): for a registry that passes the
\* earlier checks and has a row with an ORCID in both Agree and Disagree, the
\* validator returns a non-zero status and prints a diagnostic.
C3_NotDisjointIsReported ==
    (/\ pc = "done"
     /\ NoBlankCells(registry)
     /\ SchemaAccepts(registry, config)
     /\ NoDuplicateRows(registry)
     /\ \A i \in DOMAIN registry : ContributorIsIn(registry[i]) /\ AtMostFiveEntries(registry[i])
     /\ \E i \in DOMAIN registry : ~AgreeDisagreeDisjoint(registry[i]))
    => (ret # <<>> /\ ret # <<0>> /\ Printed("disjoint") # {})

\* C4 (as the specification states it): no exception leaves the validator.
C4_NoExceptionPropagates == exc = ""

\* C5: a registry with exactly one blank cell makes the validator return 1
\* with one diagnostic, which names that cell's column and its row number
\* (0-based index + 2) and nothing else.
C5_SingleBlankCell ==
    \A i \in DOMAIN registry : \A c \in ColumnSet :
        (/\ pc = "done"
         /\ Strip(registry[i][c]) = <<>>
         /\ \A j \in DOMAIN registry : \A d \in ColumnSet :
              <<j, d>> # <<i, c>> => Strip(registry[j][d]) # <<>>)
        => /\ ret = <<1>>
           /\ exc = ""
           /\ diag = << [check |-> "empty_cells", what |-> << <<c, <<(i - 1) + 2>> >> >>] >>

\* C5 witness: the validator returned for a registry whose only blank cell
\* is a cell of whitespace in the third row.
C5_Witness ==
    /\ pc = "done"
    /\ registry[3][TargetCol] = Blank
    /\ \A j \in DOMAIN registry : \A d \in ColumnSet :
         <<j, d>> # <<3, TargetCol>> => Strip(registry[j][d]) # <<>>
    /\ ret = <<1>>

\* The groups of rows that are equal outside Contributor, Agree and
\* Disagree, each the set of the row numbers of its members.
DuplicateGroups(reg) ==
    {{RowNumber(j) : j \in {k \in DOMAIN reg : SameButContributors(reg, i, k)}} :
        i \in {k \in DOMAIN reg : \E j \in DOMAIN reg : j # k /\ SameButContributors(reg, k, j)}}

\* C6: on a registry that passes the blank-cell and schema checks the
\* duplicate check fails, with status 1, exactly when two rows are equal in
\* every column but Contributor, Agree and Disagree, and its diagnostic holds
\* the groups of row numbers of the equal rows; rows that differ in another
\* column are not flagged.
C6_DuplicateRows ==
    (pc = "done" /\ NoBlankCells(registry) /\ SchemaAccepts(registry, config)) =>
        /\ NoDuplicateRows(registry) <=> Printed("duplicates") = {}
        /\ ~NoDuplicateRows(registry) =>
             /\ ret = <<1>>
             /\ Len(diag) = 1
             /\ {Range(g) : g \in diag[1].what} = DuplicateGroups(registry)
             /\ \A g \in diag[1].what : g = SeqOfSet(Range(g))

\* C6 witness: rows 2 and 3 of the file, which differ in their Contributor,
\* Agree and Disagree cells only, were reported as one group.
C6_Witness ==
    /\ pc = "done"
    /\ ret = <<1>>
    /\ Printed("duplicates") # {}
    /\ DuplicateGroups(registry) = {{2, 3}}
    /\ registry[1]["Agree"] # registry[2]["Agree"]

\* The rows whose Contributor is in neither Agree nor Disagree.
ContributorMissingRows(reg) == {i \in DOMAIN reg : ~ContributorIsIn(reg[i])}

\* C7: on a registry that passes the earlier checks the contributor check
\* fails, with status 1 and the row numbers of the rows concerned, exactly for
\* the rows whose Contributor is in neither the Agree nor the Disagree tokens
\* (split on ";", whitespace stripped, empty tokens and NA dropped): a row
\* with the Contributor in either column passes.
C7_ContributorMembership ==
    (/\ pc = "done"
     /\ NoBlankCells(registry)
     /\ SchemaAccepts(registry, config)
     /\ NoDuplicateRows(registry)) =>
        /\ ContributorMissingRows(registry) = {} <=> Printed("contributor") = {}
        /\ ContributorMissingRows(registry) # {} =>
             /\ ret = <<1>>
             /\ diag = << [check |-> "contributor",
                           what |-> RowNumbers(ContributorMissingRows(registry))] >>

\* C7 witness: a row whose Contributor is in neither column was reported,
\* next to a row that has its Contributor in the Disagree column only.
C7_Witness ==
    /\ pc = "done"
    /\ Printed("contributor") # {}
    /\ \E i \in DOMAIN registry :
         /\ registry[i]["Contributor"] \notin CellOrcids(registry[i]["Agree"])
         /\ registry[i]["Contributor"] \in CellOrcids(registry[i]["Disagree"])

\* The rows with more than 5 entries in Agree or in Disagree.
OverfullRows(reg) == {i \in DOMAIN reg : ~AtMostFiveEntries(reg[i])}

PassesContributor(reg, cfg) ==
    /\ NoBlankCells(reg)
    /\ SchemaAccepts(reg, cfg)
    /\ NoDuplicateRows(reg)
    /\ \A i \in DOMAIN reg : ContributorIsIn(reg[i])

AllExpectedMdPaths(reg) == UNION {ExpectedMdPaths(reg, key) : key \in GroupKeys(reg)}

\* C9: when the document <orcid>.md of an ORCID of a group is missing from
\* the group's directory, the validator returns 1 and prints a diagnostic
\* that names exactly that path; the other ORCIDs of the group are still
\* processed and the missing path is in the set of expected document paths
\* returned for the group.
C9_MissingDocument ==
    (pc = "done" /\ RowsPass(registry, config)) =>
        LET missing == AllExpectedMdPaths(registry) \ DOMAIN mdFiles
        IN  /\ \A p \in missing : \E k \in Printed("missing_document") : diag[k].what = p
            /\ \A k \in Printed("missing_document") : diag[k].what \in missing
            /\ missing # {} => ret = <<1>> /\ exc = ""
            /\ Len(res) = Cardinality(GroupKeys(registry))
            /\ \A key \in GroupKeys(registry) :
                 \E k \in DOMAIN res : res[k][1] = ExpectedMdPaths(registry, key)
            /\ \A p \in AllExpectedMdPaths(registry) \cap DOMAIN mdFiles :
                 ~WellFormed(mdFiles[p]) =>
                     \E k \in Printed("exception") : diag[k].what[1] = p

\* C9 witness: one document of a group is missing and another document of
\* the same group, which does not parse, was still read.
C9_Witness ==
    /\ pc = "done"
    /\ ret = <<1>>
    /\ \E key \in GroupKeys(registry) : \E p, q \in ExpectedMdPaths(registry, key) :
         /\ p \notin DOMAIN mdFiles
         /\ \E k \in Printed("missing_document") : diag[k].what = p
         /\ q \in DOMAIN mdFiles
         /\ \E k \in Printed("exception") : diag[k].what[1] = q

\* The (row number, file) pairs of the listed images that are not in the
\* tree, and of those whose content does not have the listed hash.
MissingImages(reg) ==
    UNION {{<<RowNumber(i), CellItems(reg[i]["Image Files"])[k]>> :
              k \in {n \in DOMAIN CellItems(reg[i]["Image Files"]) :
                       CellItems(reg[i]["Image Files"])[n] \notin DOMAIN files}} :
           i \in DOMAIN reg}

MismatchedImages(reg) ==
    UNION {{<<RowNumber(i), CellItems(reg[i]["Image Files"])[k]>> :
              k \in {n \in DOMAIN CellItems(reg[i]["Image Files"]) :
                       /\ CellItems(reg[i]["Image Files"])[n] \in DOMAIN files
                       /\ files[CellItems(reg[i]["Image Files"])[n]] # CellItems(reg[i]["MD5"])[n]}} :
           i \in DOMAIN reg}

\* C10: in a run that reaches the image check with equal counts, the list of
\* missing files and the list of files whose MD5 differs are both built over
\* all rows, each is printed when it is not empty, and the status is 1 when
\* either is not empty.
C10_MissingAndMismatch ==
    (/\ pc = "done"
     /\ RowsPass(registry, config)
     /\ \A i \in DOMAIN registry : EqualCounts(registry[i])
     /\ DocumentsValid(registry)
     /\ DOMAIN mdFiles \subseteq AllExpectedMdPaths(registry)) =>
        /\ MissingImages(registry) # {} <=> Printed("missing_images") # {}
        /\ MismatchedImages(registry) # {} <=> Printed("md5_mismatch") # {}
        /\ \A k \in Printed("missing_images") : Range(diag[k].what) = MissingImages(registry)
        /\ \A k \in Printed("md5_mismatch") : Range(diag[k].what) = MismatchedImages(registry)
        /\ (MissingImages(registry) # {} \/ MismatchedImages(registry) # {}) =>
               ret = <<1>> /\ exc = ""

\* C10 witness: one run reported a missing file and a file of another row
\* whose hash differs.
C10_Witness ==
    /\ pc = "done"
    /\ ret = <<1>>
    /\ Printed("missing_images") # {}
    /\ Printed("md5_mismatch") # {}
    /\ \E x \in MissingImages(registry) : \E y \in MismatchedImages(registry) : x[1] # y[1]

\* The Markdown files of the tree that are no expected document, and the
\* other files that are neither a listed image nor named .DS_Store.
UnaccountedMd(reg) == DOMAIN mdFiles \ AllExpectedMdPaths(reg)

UnaccountedFiles(reg) ==
    {f \in DOMAIN files : f \notin ListedImages(reg) /\ PathName(f) # <<".DS_Store">>}

PassesAllButExtras ==
    /\ RowsPass(registry, config)
    /\ \A i \in DOMAIN registry : EqualCounts(registry[i])
    /\ DocumentsValid(registry)
    /\ ImagesValid(registry)

\* C11: for inputs that pass every other check the validator returns 1
\* whenever the tree holds a Markdown file that is no expected document or
\* another file that is neither a listed image nor named in the ignore list,
\* and names these files; a file named in the ignore list never causes a
\* failure (without unaccounted files the validator returns 0).
C11_SuperfluousFiles ==
    (pc = "done" /\ PassesAllButExtras) =>
        /\ exc = ""
        /\ IF UnaccountedMd(registry) # {}
           THEN ret = <<1>>
                /\ diag = << [check |-> "superfluous_md", what |-> UnaccountedMd(registry)] >>
           ELSE IF UnaccountedFiles(registry) # {}
           THEN ret = <<1>>
                /\ diag = << [check |-> "superfluous_files",
                              what |-> UnaccountedFiles(registry)] >>
           ELSE ret = <<0>> /\ diag = <<>>

\* C11 witness: a tree with an unlisted file and a .DS_Store file was
\* refused for the unlisted file alone.
C11_Witness ==
    /\ pc = "done"
    /\ PassesAllButExtras
    /\ ret = <<1>>
    /\ IgnoredFile \in DOMAIN files
    /\ UnaccountedFiles(registry) = {ExtraFile}

\* C12 (as the specification states it): a second run of the validator on
\* unchanged inputs ends with the diagnostics (the messages, their order and
\* the paths they name) and the status of the first run.
C12_SameDiagnostics ==
    (run = 2 /\ pc = "done") => first = <<ret, exc, diag>>

\* C13 (as the specification states it): whatever keys the rule
\* configuration holds, the configuration passed to the schema validator
\* binds Contributor to the creators' ORCIDs plus NA, Vendor to the vendor
\* names, and Agree and Disagree to the creators' ORCIDs plus NA.
C13_AllFourColumnsConstrained ==
    /\ DOMAIN column_is_in(config) = {"Contributor", "Vendor"}
    /\ column_is_in(config)["Contributor"] = CreatorOrcids \cup {NA}
    /\ column_is_in(config)["Vendor"] = VendorNames
    /\ DOMAIN multi_value_column_is_in(config) = {"Agree", "Disagree"}
    /\ multi_value_column_is_in(config)["Agree"] = CreatorOrcids \cup {NA}
    /\ multi_value_column_is_in(config)["Disagree"] = CreatorOrcids \cup {NA}

\* The first check of the rows the registry fails, "" if it passes them all.
FirstRowFailure(reg, cfg) ==
    IF ~NoBlankCells(reg) THEN "empty_cells"
    ELSE IF ~SchemaAccepts(reg, cfg) THEN "schema"
    ELSE IF ~NoDuplicateRows(reg) THEN "duplicates"
    ELSE IF ContributorMissingRows(reg) # {} THEN "contributor"
    ELSE IF OverfullRows(reg) # {} THEN "cardinality"
    ELSE IF \E i \in DOMAIN reg : ~AgreeDisagreeDisjoint(reg[i]) THEN "disjoint"
    ELSE ""

\* The place of a diagnostic's check in the order of the checks.
Stage(check) ==
    CASE check = "empty_cells" -> 1
      [] check = "schema" -> 2
      [] check = "duplicates" -> 3
      [] check = "contributor" -> 4
      [] check = "cardinality" -> 5
      [] check = "disjoint" -> 6
      [] check \in {"missing_document", "exception", "contents_do_not_match",
                    "image_not_used"} -> 7
      [] check = "superfluous_md" -> 8
      [] OTHER -> 9

\* C14 (as the specification states it): the checks run in the order blank
\* cells, schema, duplicates, contributor, cardinality, disjointness,
\* supporting material, superfluous Markdown files, images, and each is a
\* gate: the validator always returns, a failing check makes it return a
\* non-zero status with the diagnostics of that check only, and a registry
\* that fails several checks of the rows gets the diagnostic of the first.
C14_SequentialGates ==
    pc = "done" =>
        /\ ret # <<>>
        /\ \A j, k \in DOMAIN diag : Stage(diag[j].check) = Stage(diag[k].check)
        /\ diag # <<>> => ret # <<0>>
        /\ FirstRowFailure(registry, config) # "" =>
             /\ ret # <<0>>
             /\ diag # <<>>
             /\ \A k \in DOMAIN diag : diag[k].check = FirstRowFailure(registry, config)

\* The (column, row numbers) pairs of the columns that have a blank cell.
BlankCellsByColumn(reg) ==
    {<<c, RowNumbers({i \in DOMAIN reg : Strip(reg[i][c]) = <<>>})>> :
        c \in {d \in ColumnSet : \E i \in DOMAIN reg : Strip(reg[i][d]) = <<>>}}

\* C15: a failing check of the rows reports every offending row: the
\* blank-cell check every column that has a blank cell with all of its blank
\* rows, the duplicate check every row of every group of equal rows, the
\* contributor and cardinality checks every row that violates them.
C15_AllOffendingRows ==
    (pc = "done" /\ FirstRowFailure(registry, config)
                        \in {"empty_cells", "duplicates", "contributor", "cardinality"}) =>
        /\ Len(diag) = 1
        /\ diag[1].check = FirstRowFailure(registry, config)
        /\ CASE diag[1].check = "empty_cells" ->
                    /\ Range(diag[1].what) = BlankCellsByColumn(registry)
                    /\ Len(diag[1].what) = Cardinality(BlankCellsByColumn(registry))
             [] diag[1].check = "duplicates" ->
                    {Range(g) : g \in diag[1].what} = DuplicateGroups(registry)
             [] diag[1].check = "contributor" ->
                    diag[1].what = RowNumbers(ContributorMissingRows(registry))
             [] diag[1].check = "cardinality" ->
                    diag[1].what = RowNumbers(OverfullRows(registry))

\* C15 witness: blank cells in two rows of one column were reported together.
C15_Witness ==
    /\ pc = "done"
    /\ \E k \in Printed("empty_cells") : \E e \in Range(diag[k].what) : Len(e[2]) = 2

\* C16 (as the specification states it): an existing, well-formed document
\* of an ORCID of a group is accepted exactly when its table holds the same
\* collection of rows as the group's registry rows that name the ORCID; any
\* other document is reported as not matching.
C16_AcceptedIffSameRows ==
    (pc = "done" /\ RowsPass(registry, config)) =>
        \A key \in GroupKeys(registry) : \A o \in GroupOrcids(registry, key) :
            LET p == MdPath(GroupDir(key), o)
            IN  (p \in DOMAIN mdFiles /\ WellFormed(mdFiles[p])) =>
                    (DocMatches(mdFiles[p], registry, key, o)
                        <=> \A k \in Printed("contents_do_not_match") : diag[k].what # p)

\* No two groups of the registry share a document directory.
DirectoriesDiffer(reg) ==
    \A k1, k2 \in GroupKeys(reg) : k1 # k2 => GroupDir(k1) # GroupDir(k2)

\* No document of the tree holds a row twice.
NoRepeatedDocRows ==
    \A p \in DOMAIN mdFiles : Cardinality(Range(mdFiles[p].table)) = Len(mdFiles[p].table)

\* The (image file, caption, row) triples of a group that no document of
\* the group's ORCIDs names with both the file name and the caption.
UnmatchedTriples(reg, key) ==
    UNION {{<<CellItems(reg[i]["Image Files"])[k], CellItems(reg[i]["Captions"])[k], i>> :
              k \in {n \in DOMAIN CellItems(reg[i]["Image Files"])
                              \cap DOMAIN CellItems(reg[i]["Captions"]) :
                       ~\E p \in ExpectedMdPaths(reg, key) \cap DOMAIN mdFiles :
                           /\ PathName(CellItems(reg[i]["Image Files"])[n]) \in mdFiles[p].names
                           /\ CellItems(reg[i]["Captions"])[n] \in mdFiles[p].captions}} :
           i \in GroupRows(reg, key)}

\* C17: after the documents of a group have been scanned, the triples
\* reported as unused are exactly the (image file, caption, row) triples of
\* the group's rows for which no single existing document of the group
\* holds both the file name and the caption; each is reported with its row
\* number (index + 2), and the group's status is 1 when there is one.
C17_UnmatchedTriples ==
    (pc = "done" /\ RowsPass(registry, config)) =>
        /\ {<<diag[k].what[2], diag[k].what[1], diag[k].what[3]>> : k \in Printed("image_not_used")}
             = UNION {{<<t[1], t[2], RowNumber(t[3])>> : t \in UnmatchedTriples(registry, key)} :
                         key \in GroupKeys(registry)}
        /\ \A key \in GroupKeys(registry) :
             UnmatchedTriples(registry, key) # {} =>
                 /\ \E k \in DOMAIN res :
                        res[k][1] = ExpectedMdPaths(registry, key) /\ res[k][2] = 1
                 /\ ret = <<1>>
        /\ \A k \in Printed("image_not_used") :
             diag[k].what[4] \in AllExpectedMdPaths(registry)

\* C17 witness: in a group of two documents, each lacking the captions, an
\* image was reported as unused.
C17_Witness ==
    /\ pc = "done"
    /\ Printed("image_not_used") # {}
    /\ \E key \in GroupKeys(registry) :
         /\ Cardinality(ExpectedMdPaths(registry, key) \cap DOMAIN mdFiles) = 2
         /\ UnmatchedTriples(registry, key) # {}

\* The expected documents of the tree that are malformed.
MalformedDocs(reg) ==
    {p \in AllExpectedMdPaths(reg) \cap DOMAIN mdFiles : ~WellFormed(mdFiles[p])}

\* C18: a malformed document (no Configurations line, no Notes column, a
\* Contributor cell without a bracketed ORCID) fails that document only:
\* the validator returns 1 with a diagnostic naming the document's path
\* and the error, and the other documents of the group and the other groups
\* are still validated (a missing one is reported, one whose table is short
\* of a row is reported) and their paths returned.
C18_MalformedDocument ==
    (pc = "done" /\ RowsPass(registry, config)) =>
        /\ \A p \in MalformedDocs(registry) :
             /\ \E k \in Printed("exception") : diag[k].what[1] = p
             /\ \A k \in Printed("exception") : diag[k].what[1] = p => diag[k].what[2] # ""
             /\ \A k \in Printed("contents_do_not_match") : diag[k].what # p
        /\ \A k \in Printed("exception") : diag[k].what[1] \in MalformedDocs(registry)
        /\ MalformedDocs(registry) # {} => ret = <<1>> /\ exc = ""
        /\ Len(res) = Cardinality(GroupKeys(registry))
        /\ \A key \in GroupKeys(registry) :
             /\ \E k \in DOMAIN res : res[k][1] = ExpectedMdPaths(registry, key)
             /\ \A o \in GroupOrcids(registry, key) :
                  LET p == MdPath(GroupDir(key), o)
                  IN  IF p \notin DOMAIN mdFiles
                      THEN \E k \in Printed("missing_document") : diag[k].what = p
                      ELSE (/\ WellFormed(mdFiles[p])
                            /\ Len(mdFiles[p].table)
                                 # Cardinality(ExpectedRows(registry, key, o)))
                           => \E k \in Printed("contents_do_not_match") : diag[k].what = p

\* C18 witness: a malformed document of one group was reported, and so was
\* a problem with a document of another group.
C18_Witness ==
    /\ pc = "done"
    /\ ret = <<1>>
    /\ \E key1, key2 \in GroupKeys(registry) :
         /\ key1 # key2
         /\ \E k \in Printed("exception") : diag[k].what[1] \in ExpectedMdPaths(registry, key1)
         /\ \E k \in Printed("missing_document") \cup Printed("contents_do_not_match") :
                diag[k].what \in ExpectedMdPaths(registry, key2)

\* The rows whose Contributor is NA.
ContributorNARows(reg) == {i \in DOMAIN reg : reg[i]["Contributor"] = NA}

\* The registry is the base registry but for Contributor cells set to NA.
BaseButContributorNA ==
    /\ config = BaseConfig
    /\ \A i \in DOMAIN registry : \A c \in ColumnSet :
         registry[i][c] = BaseRegistry[i][c] \/ (c = "Contributor" /\ registry[i][c] = NA)

\* C19: a row whose Contributor is NA is accepted by the schema check and
\* fails the contributor check (an otherwise valid registry gets the
\* contributor diagnostic with exactly these rows), so that no registry with
\* such a row is reported as valid; and at the supporting-material stage
\* every group has at least one ORCID.
C19_ContributorNA ==
    /\ (pc = "done" /\ ContributorNARows(registry) # {}) => ret # <<0>>
    /\ (pc = "done" /\ ContributorNARows(registry) # {} /\ BaseButContributorNA) =>
           /\ ret = <<1>>
           /\ diag = << [check |-> "contributor",
                         what |-> RowNumbers(ContributorNARows(registry))] >>
    /\ pc \in {"tree", "supporting_material", "orcid", "superfluous_md", "images"} =>
           \A key \in GroupKeys(registry) : GroupOrcids(registry, key) # {}
    /\ (pc = "orcid" /\ file_names = {}) => orcids # {}
    /\ exc # "UnboundLocalError"

\* C19 witness: a registry whose only fault is a Contributor NA was refused
\* by the contributor check.
C19_Witness ==
    /\ pc = "done"
    /\ BaseButContributorNA
    /\ ContributorNARows(registry) # {}
    /\ Printed("contributor") # {}

\* C20 (as the specification states it): two distinct (target, conjugate)
\* pairs of the registry have different document directories, so that no
\* document path is validated against the rows of two groups.
C20_OwnDirectories ==
    /\ \A j, k \in DOMAIN unique_target_conjugate(registry) :
         j # k => data_path(unique_target_conjugate(registry)[j])
                    # data_path(unique_target_conjugate(registry)[k])
    /\ \A j, k \in DOMAIN res : j # k => res[j][1] \cap res[k][1] = {}

\* C20 witness: a document path was validated against the rows of two
\* groups, and the validator refused the input set.
C20_Witness ==
    /\ pc = "done"
    /\ ret = <<1>>
    /\ \E j, k \in DOMAIN res : j # k /\ res[j][1] \cap res[k][1] # {}

====
